---- MODULE Spec2Model ----
(***************************************************************************)
(* Model of the AOSPBugreportAnalyzer MCP servers.                         *)
(*                                                                         *)
(* The repository holds five server programs ("variants"), each a process  *)
(* of its own:                                                             *)
(*   "server"   src/src/server.ts lines 1-264   (GitHub tools + summary)   *)
(*   "server2"  src/src/server.ts lines 266-426 (GitHub tools only)        *)
(*   "part_000" src/unnamed/part_000            (Zod .strict() schemas)    *)
(*   "part_001" src/unnamed/part_001            (JSON-schema literals)     *)
(*   "adb"      src/src/adbServer.ts            (adb tools)                *)
(*                                                                         *)
(* Text is modelled as a sequence of one-character strings, a path as a    *)
(* sequence of segments (each a text), POSIX rules.                        *)
(***************************************************************************)
EXTENDS Integers, Sequences, FiniteSets, TLC

VARIABLES
    variant,        \* which server program this process runs
    zodMajor,       \* major version of the zod package the build resolves
    GITHUB_TOKEN,   \* process.env.GITHUB_TOKEN: "" models unset or empty
    DEFAULT_OWNER,  \* read once at module load
    DEFAULT_REPO,   \* read once at module load
    pc,             \* "boot" before main() ran, "serving" after
    registered,     \* tool names registered with the McpServer
    stdout,         \* kinds of text written to stdout so far
    stderr,         \* tags of the diagnostics written to stderr so far
    httpRequests,   \* number of HTTP GETs issued (undici request calls)
    spawned,        \* number of child processes spawned
    dirs,           \* directories created by the process
    files,          \* files on disk: set of [path, content]
    calls,          \* number of tool invocations handled
    req,            \* the last tool request
    adapter,        \* what the external-operation adapter did for it
    result          \* what the handler surfaced for it

vars == <<variant, zodMajor, GITHUB_TOKEN, DEFAULT_OWNER, DEFAULT_REPO, pc, registered,
          stdout, stderr, httpRequests, spawned, dirs, files, calls, req,
          adapter, result>>

----------------------------------------------------------------------------
(* Bounds *)

MaxCalls == 2
MaxNameLen == 4
MaxBodyOver == 2

----------------------------------------------------------------------------
(* Text helpers (JavaScript String methods used by the handlers) *)

Min(a, b) == IF a < b THEN a ELSE b

\* characters matched by the regular-expression class \s and by trim()
Whitespace == {" ", "\t", "\n"}

\* characters matched by /[\/\\]/
Separators == {"/", "\\"}

RECURSIVE TrimStart(_)
TrimStart(s) ==
    IF Len(s) > 0 /\ s[1] \in Whitespace THEN TrimStart(Tail(s)) ELSE s

RECURSIVE TrimEnd(_)
TrimEnd(s) ==
    IF Len(s) > 0 /\ s[Len(s)] \in Whitespace
    THEN TrimEnd(SubSeq(s, 1, Len(s) - 1))
    ELSE s

\* String.prototype.trim
Trim(s) == TrimEnd(TrimStart(s))

\* .replace(/[\/\\]/g, "_")
ReplaceSeparators(s) ==
    [i \in 1..Len(s) |-> IF s[i] \in Separators THEN "_" ELSE s[i]]

\* .replace(/\.\./g, ""): leftmost, non-overlapping matches are removed
RECURSIVE RemoveDotDot(_)
RemoveDotDot(s) ==
    IF Len(s) < 2 THEN s
    ELSE IF s[1] = "." /\ s[2] = "."
         THEN RemoveDotDot(SubSeq(s, 3, Len(s)))
         ELSE <<s[1]>> \o RemoveDotDot(Tail(s))

\* .replace(/\s+/g, "_"): every maximal whitespace run becomes one "_"
RECURSIVE CollapseWhitespace(_)
CollapseWhitespace(s) ==
    IF Len(s) = 0 THEN s
    ELSE IF s[1] \in Whitespace
         THEN <<"_">> \o CollapseWhitespace(TrimStart(s))
         ELSE <<s[1]>> \o CollapseWhitespace(Tail(s))

\* TRUE iff text `sub` occurs in text `s`
Contains(s, sub) ==
    \E i \in 1..(Len(s) - Len(sub) + 1) : SubSeq(s, i, i + Len(sub) - 1) = sub

\* String.prototype.slice(0, n)
SliceFromStart(s, n) == SubSeq(s, 1, Min(n, Len(s)))

----------------------------------------------------------------------------
(* Paths (node:path, POSIX) *)

\* split a text on "/" into its segments
RECURSIVE SplitPath(_)
SplitPath(s) ==
    IF Len(s) = 0 THEN << <<>> >>
    ELSE LET rest == SplitPath(Tail(s)) IN
         IF s[1] = "/"
         THEN << <<>> >> \o rest
         ELSE << <<s[1]>> \o rest[1] >> \o Tail(rest)

\* path.normalize applied segment by segment to an absolute base
RECURSIVE ApplySegments(_, _)
ApplySegments(base, segs) ==
    IF Len(segs) = 0 THEN base
    ELSE LET seg == segs[1] IN
         IF Len(seg) = 0 \/ seg = <<".">>
         THEN ApplySegments(base, Tail(segs))
         ELSE IF seg = <<".", ".">>
              THEN ApplySegments(SubSeq(base, 1, Len(base) - 1), Tail(segs))
              ELSE ApplySegments(Append(base, seg), Tail(segs))

\* path.join(dir, name) for an absolute, normalized dir
PathJoin(dir, name) == ApplySegments(dir, SplitPath(name))

\* process.cwd()
Cwd == << <<"c", "w", "d">> >>

\* path.join(process.cwd(), "summaries")
SummariesDir == PathJoin(Cwd, <<"s", "u", "m", "m", "a", "r", "i", "e", "s">>)

\* path.join(process.cwd(), "bugreports")
BugreportsDir == PathJoin(Cwd, <<"b", "u", "g", "r", "e", "p", "o", "r", "t", "s">>)

\* p is dir itself or lies below it
IsInside(p, dir) == Len(p) >= Len(dir) /\ SubSeq(p, 1, Len(dir)) = dir

\* p is a file name directly in dir
IsDirectChild(p, dir) == Len(p) = Len(dir) + 1 /\ SubSeq(p, 1, Len(dir)) = dir

----------------------------------------------------------------------------
(* The server programs and their tools *)

Variants == {"server", "server2", "part_000", "part_001", "adb"}

\* the names passed to server.registerTool by registerTools()
Tools(v) ==
    CASE v = "server2" -> {"github.list_pull_requests", "github.get_pr_diff"}
      [] v = "adb" -> {"adb.list_devices", "adb.get_bugreport"}
      [] OTHER -> {"github.list_pull_requests", "github.get_pr_diff",
                   "fs.save_summary"}

\* a tool result as the handler surfaces it:
\*   kind    "ok" (returned without isError), "isError" (returned with
\*           isError: true) or "thrown" (the handler's promise rejected)
\*   err     the kind of the failure, "" on success
\*   msg     the underlying failure message carried by the text, "" if none
\*   hasText the result has a content list with at least one text block
\*   payload structuredContent (or the bare return value), <<>> if none
Result(kind, err, msg, hasText, payload) ==
    [kind |-> kind, err |-> err, msg |-> msg, hasText |-> hasText,
     payload |-> payload]

NoResult == Result("none", "", "", FALSE, <<>>)
NoRequest == [tool |-> "none"]
NoAdapter == [op |-> "none"]

\* module-level constants of the GitHub servers (process.env reads)
EnvTokens == {"", "ghp"}
EnvOwners == {"aas-aosp-dev", "env-owner"}
EnvRepos == {"AOSPBugreportAnalyzer", "env-repo"}

Init ==
    /\ variant \in Variants
    /\ zodMajor \in (IF variant = "part_000" THEN {3, 4} ELSE {3})
    /\ IF variant = "adb"
       THEN GITHUB_TOKEN = "" /\ DEFAULT_OWNER = "" /\ DEFAULT_REPO = ""
       ELSE /\ GITHUB_TOKEN \in EnvTokens
            /\ DEFAULT_OWNER \in EnvOwners
            /\ DEFAULT_REPO \in EnvRepos
    /\ pc = "boot"
    /\ registered = {}
    /\ stdout = {}
    /\ stderr = {}
    /\ httpRequests = 0
    /\ spawned = 0
    /\ dirs = {}
    /\ files = {}
    /\ calls = 0
    /\ req = NoRequest
    /\ adapter = NoAdapter
    /\ result = NoResult

\* main(): the startup notices go to console.error, registerTools() fills
\* the registry, server.connect attaches the stdio transport.  No variant
\* checks GITHUB_TOKEN here.
Start ==
    /\ pc = "boot"
    /\ pc' = "serving"
    /\ registered' = Tools(variant)
    /\ stderr' = stderr \cup {"starting", "registering", "connected"}
    /\ UNCHANGED <<variant, zodMajor, GITHUB_TOKEN, DEFAULT_OWNER, DEFAULT_REPO, stdout,
                   httpRequests, spawned, dirs, files, calls, req, adapter,
                   result>>

\* What reaches stdout while one request is received and answered.  The
\* transport writes the JSON-RPC response; part_001 wraps transport.onmessage
\* and transport.send with console.log.
TransportStdout(v) ==
    IF v = "part_001" THEN {"protocol", "diagnostic"} ELSE {"protocol"}

----------------------------------------------------------------------------
(* fs.save_summary *)

SummaryMd == <<"s", "u", "m", "m", "a", "r", "y", ".", "m", "d">>

\* the file name the handler derives from the fileName argument
SafeFileName(v, fileName) ==
    IF v = "server"
    THEN LET t == ReplaceSeparators(Trim(fileName)) IN
         IF Len(t) = 0 THEN SummaryMd ELSE t
    ELSE CollapseWhitespace(RemoveDotDot(ReplaceSeparators(fileName)))

\* the path has a directory behind it: one the process created, or the
\* working directory and its ancestors
IsDirectory(p, ds) ==
    \/ p \in ds
    \/ Len(p) <= Len(Cwd) /\ SubSeq(Cwd, 1, Len(p)) = p

\* A string is a tuple of UTF-16 code units: a character of the basic plane
\* is one unit; HighSurrogate followed by LowSurrogate is one character
\* outside it.  A file holds a tuple of encoded characters.
HighSurrogate == "D83D"
LowSurrogate == "DE00"
Supplementary == "1F600"
Replacement == "FFFD"

\* the "utf8" encoding of a string: a surrogate pair becomes one character,
\* a surrogate without its partner becomes the replacement character U+FFFD
RECURSIVE Utf8Encode(_)
Utf8Encode(s) ==
    IF Len(s) = 0 THEN <<>>
    ELSE IF Len(s) >= 2 /\ s[1] = HighSurrogate /\ s[2] = LowSurrogate
    THEN <<Supplementary>> \o Utf8Encode(SubSeq(s, 3, Len(s)))
    ELSE IF s[1] \in {HighSurrogate, LowSurrogate}
    THEN <<Replacement>> \o Utf8Encode(Tail(s))
    ELSE <<s[1]>> \o Utf8Encode(Tail(s))

\* the write appending to a file that exists (appendFile)
WriteFile_Append(fs, path, content) ==
    {f \in fs : f.path # path}
      \cup {[path |-> path,
              content |-> IF \E f \in fs : f.path = path
                          THEN (CHOOSE f \in fs : f.path = path).content
                                 \o Utf8Encode(content)
                          ELSE Utf8Encode(content)]}

\* fs.promises.writeFile(path, content, "utf8"): replaces the file's content
\* with the encoded string
WriteFile(fs, path, content) ==
    {f \in fs : f.path # path}
      \cup {[path |-> path, content |-> Utf8Encode(content)]}

\* the catch block of the fs.save_summary handler
SaveFailure(v, msg) ==
    IF v = "part_000"
    THEN Result("thrown", "FilesystemFailure", msg, FALSE, <<>>)
    ELSE Result("isError", "FilesystemFailure", msg, TRUE, <<>>)

\* the content argument: any string the declared shape accepts
Contents == {<<"x">>, <<"y", HighSurrogate, LowSurrogate>>, <<"x", HighSurrogate>>}
FsFaults == {"none", "mkdir", "write"}

SaveSummary(names, maxCalls) ==
    /\ pc = "serving"
    /\ "fs.save_summary" \in registered
    /\ calls < maxCalls
    /\ \E fileName \in names, content \in Contents, fault \in FsFaults :
         LET safeFileName == SafeFileName(variant, fileName)
             fullPath == PathJoin(SummariesDir, safeFileName)
             mkdirOk == fault # "mkdir"
             dirsAfter == IF mkdirOk THEN dirs \cup {SummariesDir} ELSE dirs
             isDir == IsDirectory(fullPath, dirsAfter)
             writeOk == mkdirOk /\ fault # "write" /\ ~isDir
             fsErr == IF ~mkdirOk THEN "EACCES"
                      ELSE IF isDir THEN "EISDIR" ELSE "ENOSPC"
         IN
         /\ req' = [tool |-> "fs.save_summary", fileName |-> fileName,
                    content |-> content]
         /\ adapter' = [op |-> "fs", safeFileName |-> safeFileName,
                        fullPath |-> fullPath, mkdirOk |-> mkdirOk,
                        writeOk |-> writeOk, fsErr |-> IF writeOk THEN "" ELSE fsErr]
         /\ dirs' = dirsAfter
         /\ files' = IF writeOk THEN WriteFile(files, fullPath, content) ELSE files
         /\ result' = IF writeOk
                      THEN Result("ok", "", "", TRUE, [filePath |-> fullPath])
                      ELSE SaveFailure(variant, fsErr)
         /\ stderr' = stderr \cup {"fs.save_summary:called"}
                        \cup (IF writeOk THEN {"fs.save_summary:saved"}
                              ELSE {"fs.save_summary:error"})
    /\ stdout' = stdout \cup TransportStdout(variant)
    /\ calls' = calls + 1
    /\ UNCHANGED <<variant, zodMajor, GITHUB_TOKEN, DEFAULT_OWNER, DEFAULT_REPO, pc,
                   registered, httpRequests, spawned>>

\* file names explored exhaustively: every text of at most MaxNameLen
\* characters over NameAlphabet, and the name of the spec's example
NameAlphabet == {"/", "\\", ".", " ", "\t", "a"}
EtcPasswd == <<".", ".", "/", ".", ".", "/", "e", "t", "c", "/", "p", "a",
               "s", "s", "w", "d">>
AllFileNames == UNION {[1..k -> NameAlphabet] : k \in 0..MaxNameLen} \cup {EtcPasswd}

\* the fs.save_summary tool alone, one call, every file name
InitSave == Init /\ variant \in {"server", "part_000", "part_001"}
                 /\ zodMajor = 3
                 /\ GITHUB_TOKEN = "ghp"
                 /\ DEFAULT_OWNER = "aas-aosp-dev"
                 /\ DEFAULT_REPO = "AOSPBugreportAnalyzer"
NextSave == Start \/ SaveSummary(AllFileNames, 1)
SpecSave == InitSave /\ [][NextSave]_vars

----------------------------------------------------------------------------
(* Tool arguments as they arrive in a tools/call request *)

Absent == [t |-> "absent", v |-> ""]
Given(x) == [t |-> "str", v |-> x]

\* a JSON value offered as `number`: absent, an integer n, a number with a
\* fractional part (n its integer part), or a string
NumAbsent == [t |-> "absent", n |-> 0]
NumInt(n) == [t |-> "int", n |-> n]
NumFrac(n) == [t |-> "frac", n |-> n]
NumStr == [t |-> "str", n |-> 0]

----------------------------------------------------------------------------
(* Input shapes of the GitHub tools.  The transport parses the arguments   *)
(* with the declared shape before it invokes the handler.                  *)

\* owner / repo: a string when present
ValidOptionalString(a) == a.t \in {"absent", "str"}

\* state: z.enum(["open","closed","all"]) / enum: ["open","closed","all"]
ValidState(a) == a.t = "absent" \/ (a.t = "str" /\ a.v \in {"open", "closed", "all"})

\* number: z.number().int().positive() (server, server2),
\*         z.number().int().min(1) (part_000),
\*         { type: "integer", minimum: 1 }, required (part_001)
\* the same shapes with the lower bound at zero (.nonnegative(), minimum: 0)
ValidNumber_FromZero(v, a) ==
    /\ a.t = "int"
    /\ a.n >= 0

ValidNumber(v, a) ==
    /\ a.t = "int"
    /\ IF v \in {"server", "server2"} THEN a.n > 0 ELSE a.n >= 1

githubListInputSchema(v, args) ==
    /\ ValidOptionalString(args.owner)
    /\ ValidOptionalString(args.repo)
    /\ ValidState(args.state)

githubGetPrDiffInputSchema(v, args) ==
    /\ ValidOptionalString(args.owner)
    /\ ValidOptionalString(args.repo)
    /\ ValidNumber(v, args.number)

\* The value the handler interpolates into the URL for an optional field
\* with default dflt.
\*   server, server2: z.string().default(dflt) fills an absent field.
\*   part_000: z.string().default(dflt).optional(); under zod 3 the outer
\*             optional answers undefined for an absent field before the
\*             default is consulted, under zod 4 the default applies.
\*   part_001: the handler computes input.field ?? dflt itself.
ResolveField(v, zod, a, dflt) ==
    IF a.t = "str" THEN a.v
    ELSE IF v = "part_000" /\ zod = 3 THEN "undefined"
    ELSE dflt

----------------------------------------------------------------------------
(* callGithub *)

SnippetLen == 200

\* the body text of a response: n characters that vary along the text
BodyChars == <<"a", "b", "c", "d", "e", "f", "g">>
BodyText(n) == [i \in 1..n |-> BodyChars[(i % 7) + 1]]

\* requireToken(), then one undici request, then the status check; requests
\* is the number of times request() is called.
\* outcome is what the network does if the request is issued:
\*   [t |-> "transport"]                      the request promise rejects
\*   [t |-> "response", status, text, json]   a response arrives; text is
\*       the body as text, json what parsing it gives: valid = FALSE if it
\*       does not parse, else data, the array of pull-request objects
NoOutcome == [t |-> "none", status |-> 0, text |-> <<>>,
              json |-> [valid |-> FALSE, data |-> <<>>]]

\* callGithub with the upper status bound off by one (> 300) and the
\* snippet cut one character late
CallGithub_OffByOne(token, outcome) ==
    IF token = ""
    THEN [op |-> "http", requests |-> 0, attempted |-> FALSE, ok |-> FALSE,
          err |-> "MissingCredential", status |-> 0, snippet |-> <<>>,
          net |-> NoOutcome]
    ELSE IF outcome.t = "transport"
    THEN [op |-> "http", requests |-> 1, attempted |-> TRUE, ok |-> FALSE,
          err |-> "TransportFailure", status |-> 0, snippet |-> <<>>,
          net |-> outcome]
    ELSE IF outcome.status < 200 \/ outcome.status > 300
    THEN [op |-> "http", requests |-> 1, attempted |-> TRUE, ok |-> FALSE,
          err |-> "RemoteRejected", status |-> outcome.status,
          snippet |-> SliceFromStart(outcome.text, SnippetLen + 1),
          net |-> outcome]
    ELSE [op |-> "http", requests |-> 1, attempted |-> TRUE, ok |-> TRUE, err |-> "",
          status |-> outcome.status, snippet |-> <<>>, net |-> outcome]

\* callGithub issuing the request a second time when the first one rejects
CallGithub_RetryOnce(token, outcome) ==
    IF token = ""
    THEN [op |-> "http", requests |-> 0, attempted |-> FALSE, ok |-> FALSE,
          err |-> "MissingCredential", status |-> 0, snippet |-> <<>>,
          net |-> NoOutcome]
    ELSE IF outcome.t = "transport"
    THEN [op |-> "http", requests |-> 2, attempted |-> TRUE, ok |-> FALSE,
          err |-> "TransportFailure", status |-> 0, snippet |-> <<>>,
          net |-> outcome]
    ELSE IF outcome.status < 200 \/ outcome.status >= 300
    THEN [op |-> "http", requests |-> 1, attempted |-> TRUE, ok |-> FALSE,
          err |-> "RemoteRejected", status |-> outcome.status,
          snippet |-> SliceFromStart(outcome.text, SnippetLen),
          net |-> outcome]
    ELSE [op |-> "http", requests |-> 1, attempted |-> TRUE, ok |-> TRUE, err |-> "",
          status |-> outcome.status, snippet |-> <<>>, net |-> outcome]

CallGithub(token, outcome) ==
    IF token = ""
    THEN [op |-> "http", requests |-> 0, attempted |-> FALSE, ok |-> FALSE,
          err |-> "MissingCredential", status |-> 0, snippet |-> <<>>,
          net |-> NoOutcome]
    ELSE IF outcome.t = "transport"
    THEN [op |-> "http", requests |-> 1, attempted |-> TRUE, ok |-> FALSE,
          err |-> "TransportFailure", status |-> 0, snippet |-> <<>>,
          net |-> outcome]
    ELSE IF outcome.status < 200 \/ outcome.status >= 300
    THEN [op |-> "http", requests |-> 1, attempted |-> TRUE, ok |-> FALSE,
          err |-> "RemoteRejected", status |-> outcome.status,
          snippet |-> SliceFromStart(outcome.text, SnippetLen),
          net |-> outcome]
    ELSE [op |-> "http", requests |-> 1, attempted |-> TRUE, ok |-> TRUE, err |-> "",
          status |-> outcome.status, snippet |-> <<>>, net |-> outcome]

\* what callGithub and the handler around it write to stdout: part_001 logs
\* with console.log before the call, and inside callGithub once the token
\* check has passed
GithubStdout(v) == IF v = "part_001" THEN {"diagnostic"} ELSE {}

\* the catch block of a GitHub handler, entered with failure err.
\*   server, server2, part_000: console.error, then `throw error`.
\*   part_001: console.error, then the result text is built from owner and
\*             repo, which are declared with const inside the try block and
\*             are out of scope here: evaluating the template throws a
\*             ReferenceError and no result is returned.
GithubFailure(v, err) ==
    IF v = "part_001"
    THEN Result("thrown", "ReferenceError", "owner is not defined", FALSE, <<>>)
    ELSE Result("thrown", err, err, FALSE, <<>>)

\* the mapping with the records in reverse order
Simplify_Reversed(data) ==
    [i \in 1..Len(data) |->
        LET pr == data[Len(data) + 1 - i]
        IN [number |-> pr.number, title |-> pr.title,
            url |-> pr.html_url, state |-> pr.state]]

\* data.map(pr => ({number, title, url: pr.html_url, state}))
Simplify(data) ==
    [i \in 1..Len(data) |-> [number |-> data[i].number, title |-> data[i].title,
                             url |-> data[i].html_url, state |-> data[i].state]]

\* the value returned by the list handler on success; server2 returns the
\* bare object, without content and without structuredContent
ListSuccess(v, simplified, owner, repo, state) ==
    IF v = "server2"
    THEN Result("ok", "", "", FALSE, [pullRequests |-> simplified])
    ELSE Result("ok", "", "", TRUE,
                [pullRequests |-> simplified, count |-> Len(simplified),
                 owner |-> owner, repo |-> repo, state |-> state])

DiffSuccess(v, diff, owner, repo, number) ==
    IF v = "server2"
    THEN Result("ok", "", "", FALSE, [diff |-> diff])
    ELSE Result("ok", "", "", TRUE,
                [diff |-> diff, length |-> Len(diff), owner |-> owner,
                 repo |-> repo, number |-> number])

\* a handler that keeps the owner it was last called with as the default
ModuleConstants_OwnerRemembered ==
    /\ GITHUB_TOKEN' = GITHUB_TOKEN
    /\ DEFAULT_REPO' = DEFAULT_REPO
    /\ DEFAULT_OWNER' = IF req'.args.owner.t = "str" THEN req'.args.owner.v
                        ELSE DEFAULT_OWNER

\* GITHUB_TOKEN, DEFAULT_OWNER and DEFAULT_REPO are const bindings set from
\* process.env when the module is loaded; the handlers destructure the input
\* into locals of their own and assign to none of the three
ModuleConstants ==
    UNCHANGED <<GITHUB_TOKEN, DEFAULT_OWNER, DEFAULT_REPO>>

\* the transport's answer to arguments the declared shape rejects
InvalidArgument == Result("thrown", "InvalidArgument", "Invalid arguments", FALSE, <<>>)

ListPullRequests(argSet, outcomes, maxCalls) ==
    /\ pc = "serving"
    /\ "github.list_pull_requests" \in registered
    /\ calls < maxCalls
    /\ \E args \in argSet, outcome \in outcomes :
         /\ req' = [tool |-> "github.list_pull_requests", args |-> args]
         /\ IF ~githubListInputSchema(variant, args)
            THEN /\ result' = InvalidArgument
                 /\ adapter' = NoAdapter
                 /\ UNCHANGED <<stderr, httpRequests>>
                 /\ stdout' = stdout \cup TransportStdout(variant)
            ELSE LET owner == ResolveField(variant, zodMajor, args.owner, DEFAULT_OWNER)
                     repo == ResolveField(variant, zodMajor, args.repo, DEFAULT_REPO)
                     state == ResolveField(variant, zodMajor, args.state, "open")
                     call == CallGithub(GITHUB_TOKEN, outcome)
                     parsed == call.ok /\ outcome.json.valid
                 IN
                 /\ adapter' = call @@
                               [url |-> [kind |-> "list", owner |-> owner,
                                         repo |-> repo, state |-> state]]
                 /\ httpRequests' = httpRequests + call.requests
                 /\ result' =
                      IF parsed
                      THEN ListSuccess(variant, Simplify(outcome.json.data), owner, repo, state)
                      ELSE GithubFailure(variant,
                             IF call.ok THEN "ParseFailure" ELSE call.err)
                 /\ stderr' = stderr \cup {"github.list_pull_requests:called"}
                                \cup (IF parsed THEN {}
                                      ELSE {"github.list_pull_requests:error"})
                 /\ stdout' = stdout \cup TransportStdout(variant)
                                \cup GithubStdout(variant)
    /\ calls' = calls + 1
    /\ ModuleConstants
    /\ UNCHANGED <<variant, zodMajor, pc, registered, spawned, dirs, files>>

GetPrDiff(argSet, outcomes, maxCalls) ==
    /\ pc = "serving"
    /\ "github.get_pr_diff" \in registered
    /\ calls < maxCalls
    /\ \E args \in argSet, outcome \in outcomes :
         /\ req' = [tool |-> "github.get_pr_diff", args |-> args]
         /\ IF ~githubGetPrDiffInputSchema(variant, args)
            THEN /\ result' = InvalidArgument
                 /\ adapter' = NoAdapter
                 /\ UNCHANGED <<stderr, httpRequests>>
                 /\ stdout' = stdout \cup TransportStdout(variant)
            ELSE LET owner == ResolveField(variant, zodMajor, args.owner, DEFAULT_OWNER)
                     repo == ResolveField(variant, zodMajor, args.repo, DEFAULT_REPO)
                     call == CallGithub(GITHUB_TOKEN, outcome)
                 IN
                 /\ adapter' = call @@
                               [url |-> [kind |-> "diff", owner |-> owner,
                                         repo |-> repo, number |-> args.number.n]]
                 /\ httpRequests' = httpRequests + call.requests
                 /\ result' =
                      IF call.ok
                      THEN DiffSuccess(variant, outcome.text, owner, repo, args.number.n)
                      ELSE GithubFailure(variant, call.err)
                 /\ stderr' = stderr \cup {"github.get_pr_diff:called"}
                                \cup (IF call.ok THEN {}
                                      ELSE {"github.get_pr_diff:error"})
                 /\ stdout' = stdout \cup TransportStdout(variant)
                                \cup GithubStdout(variant)
    /\ calls' = calls + 1
    /\ ModuleConstants
    /\ UNCHANGED <<variant, zodMajor, pc, registered, spawned, dirs, files>>

----------------------------------------------------------------------------
(* Requests and network outcomes the GitHub tools are exercised with *)

OwnerArgs == {Absent, Given("octo")}
RepoArgs == {Absent, Given("hello")}
StateArgs == {Absent, Given("open"), Given("closed"), Given("all"), Given("bogus")}
NumberArgs == {NumAbsent, NumInt(-1), NumInt(0), NumInt(1), NumInt(7),
               NumFrac(0), NumFrac(1), NumStr}

ListArgs == [owner : OwnerArgs, repo : RepoArgs, state : StateArgs]
DiffArgs == [owner : OwnerArgs, repo : RepoArgs, number : NumberArgs]

Pr(n, title, st) ==
    [number |-> n, title |-> title, html_url |-> <<"pull", n>>, state |-> st,
     draft |-> FALSE]

PrLists == {<<>>, <<Pr(1, "a", "open")>>,
            <<Pr(7, "b", "closed"), Pr(1, "a", "open")>>,
            <<Pr(1, "a", "open"), Pr(1, "a", "open")>>}

Jsons == {[valid |-> FALSE, data |-> <<>>]} \cup
         {[valid |-> TRUE, data |-> d] : d \in PrLists}

Statuses == {199, 200, 204, 299, 300, 404, 500}
BodyLens == {0, 5} \cup ((SnippetLen - 1)..(SnippetLen + MaxBodyOver))

Transport == [t |-> "transport", status |-> 0, text |-> <<>>,
              json |-> [valid |-> FALSE, data |-> <<>>]]

Response(s, n, j) == [t |-> "response", status |-> s, text |-> BodyText(n), json |-> j]

\* a JSON array body for the list endpoint, any text for the diff endpoint
\* and for rejected requests
ListOutcomes ==
    {Transport}
    \cup {Response(s, 5, j) : s \in {200, 204, 299}, j \in Jsons}
    \cup {Response(s, n, [valid |-> FALSE, data |-> <<>>]) :
            s \in Statuses \ {200, 204, 299}, n \in BodyLens}

DiffOutcomes ==
    {Transport}
    \cup {Response(s, n, [valid |-> FALSE, data |-> <<>>]) :
            s \in Statuses, n \in BodyLens}

\* the GitHub tools alone, one call, every request and outcome
InitGithub == Init /\ variant # "adb"
NextGithub ==
    \/ Start
    \/ ListPullRequests(ListArgs, ListOutcomes, 1)
    \/ GetPrDiff(DiffArgs, DiffOutcomes, 1)
SpecGithub == InitGithub /\ [][NextGithub]_vars

----------------------------------------------------------------------------
(* adb.get_bugreport *)

\* the arguments object of a tools/call request for adb.get_bugreport:
\*   shape  "absent" (undefined or null), "nonobject" (a string, a number)
\*          or "object"
\*   serial the serial property of an object: absent, a number, or a string
\*          (v, its text)
BugreportArgs(shape, t, v) == [shape |-> shape, serial |-> [t |-> t, v |-> v]]

\* getBugreportInputSchema: z.object({ serial: z.string() }).strict()
getBugreportInputSchema(args) ==
    args.shape = "object" /\ args.serial.t = "str"

\* the guard at the top of the handler:
\*   !args || typeof args !== "object" || typeof args.serial !== "string"
HandlerRejects(args) ==
    \/ args.shape = "absent"
    \/ args.shape # "object"
    \/ args.serial.t # "str"

\* the guard without its test of the serial property
RejectsArguments_SerialUnchecked(args) ==
    args.shape # "object"

\* the request is refused before the handler body runs: by the declared
\* shape or by the handler's own guard
RejectsArguments(args) ==
    ~getBugreportInputSchema(args) \/ HandlerRejects(args)

\* new Date().toISOString() at clock reading ts (the seconds and the
\* milliseconds are what differs between the readings of the model)
Digits == <<"0", "1", "2", "3", "4", "5", "6", "7", "8", "9">>
ToISOString(ts) == <<"T", "0", "0", ":", "0", Digits[ts + 1], ".", "0", "0",
                     Digits[ts + 1], "Z">>

\* .replace(/[:.]/g, "-")
ReplaceColonDot(s) ==
    [i \in 1..Len(s) |-> IF s[i] \in {":", "."} THEN "-" ELSE s[i]]

\* `bugreport-${serial}-${timestamp}.txt`
BugreportFileName(serial, ts) ==
    <<"b", "u", "g", "r", "e", "p", "o", "r", "t", "-">> \o serial \o <<"-">>
      \o ReplaceColonDot(ToISOString(ts)) \o <<".", "t", "x", "t">>

\* fs.createWriteStream(path): the file is created or truncated, and holds
\* written, what the stream has written to it so far
CreateWriteStream(fs, path, written) ==
    {f \in fs : f.path # path} \cup {[path |-> path, content |-> written]}

\* fs.promises.rm(path, { force: true })
RemoveFile(fs, path) == {f \in fs : f.path # path}

\* how the child process ends:
\*   [t |-> "error"]                     spawn fails, 'error' is emitted
\*   [t |-> "close", isNull, code]       'close' with a null code or a code
ChildError == [t |-> "error", isNull |-> FALSE, code |-> 0]
ChildClose(code) == [t |-> "close", isNull |-> FALSE, code |-> code]
ChildCloseNull == [t |-> "close", isNull |-> TRUE, code |-> 0]
ChildEnds == {ChildError, ChildCloseNull, ChildClose(0), ChildClose(1), ChildClose(255)}

\* the exit promise: new Promise((resolve, reject) => { proc.on("error",
\* reject); proc.on("close", code => resolve(code ?? 0)) }).  events is what
\* the child emits, in order; a promise is settled by the first call of
\* resolve or reject and ignores the later ones.
Pending == [t |-> "pending", isNull |-> FALSE, code |-> 0]

RECURSIVE Settle(_, _)
Settle(settled, events) ==
    IF Len(events) = 0 THEN settled
    ELSE Settle(IF settled.t = "pending" THEN events[1] ELSE settled,
                Tail(events))

\* a promise that the last event settles
ExitPromise_LastWins(events) == events[Len(events)]

\* the event that settles the exit promise
ExitPromise(events) == Settle(Pending, events)

\* what a child can emit: one event, or both in either order (after a
\* failed spawn 'error' is followed by 'close')
SingleEndings == {<<e>> : e \in ChildEnds}
BothEvents ==
    {<<ChildError, ChildClose(0)>>, <<ChildError, ChildCloseNull>>,
     <<ChildError, ChildClose(255)>>, <<ChildClose(0), ChildError>>,
     <<ChildClose(1), ChildError>>}

\* a null code taken for a failure (code ?? 1)
ExitCode_NullIsFailure(end) == IF end.isNull THEN 1 ELSE end.code

\* code ?? 0
ExitCode(end) == IF end.isNull THEN 0 ELSE end.code

Timestamps == {1, 2}

\* what of the child's stdout has reached the file when the handler
\* returns: the pipe hands the chunks to the write stream, whose writes
\* complete on their own schedule
Flushed == {"partial", "full"}

GetBugreport(argSet, endings, maxCalls) ==
    /\ pc = "serving"
    /\ "adb.get_bugreport" \in registered
    /\ calls < maxCalls
    /\ \E args \in argSet, fault \in {"none", "mkdir"}, ts \in Timestamps,
          events \in endings, flushed \in Flushed :
         LET end == ExitPromise(events) IN
         /\ req' = [tool |-> "adb.get_bugreport", args |-> args]
         /\ calls' = calls + 1
         /\ IF RejectsArguments(args)
            THEN \* rejected before the first statement with an effect
                 /\ result' = InvalidArgument
                 /\ adapter' = NoAdapter
                 /\ pc' = pc
                 /\ stdout' = stdout \cup TransportStdout(variant)
                 /\ UNCHANGED <<stderr, spawned, dirs, files>>
            ELSE IF fault = "mkdir"
            THEN \* fs.promises.mkdir rejects; nothing catches it
                 /\ result' = Result("thrown", "FilesystemFailure", "EACCES", FALSE, <<>>)
                 /\ adapter' = [op |-> "spawn", spawned |-> FALSE, fullPath |-> <<>>,
                                end |-> ChildError, exitCode |-> 0,
                                events |-> <<>>]
                 /\ pc' = pc
                 /\ stdout' = stdout \cup TransportStdout(variant)
                 /\ stderr' = stderr \cup {"adb.get_bugreport:called"}
                 /\ UNCHANGED <<spawned, dirs, files>>
            ELSE LET serial == args.serial.v
                     fileName == BugreportFileName(serial, ts)
                     fullPath == PathJoin(BugreportsDir, fileName)
                     dirsAfter == dirs \cup {BugreportsDir}
                     parentOk == IsDirectory(SubSeq(fullPath, 1, Len(fullPath) - 1),
                                             dirsAfter)
                     exitCode == ExitCode(end)
                     created == CreateWriteStream(files, fullPath, "")
                 IN
                 /\ dirs' = dirsAfter
                 /\ spawned' = spawned + 1
                 /\ stdout' = IF parentOk THEN stdout \cup TransportStdout(variant)
                              ELSE stdout
                 /\ adapter' = [op |-> "spawn", spawned |-> TRUE,
                                fullPath |-> fullPath, end |-> end,
                                exitCode |-> exitCode, events |-> events]
                 /\ IF ~parentOk
                    THEN \* createWriteStream cannot open the file: the stream
                         \* emits 'error', nothing listens, the process dies
                         /\ result' = Result("crash", "UncaughtException", "ENOENT",
                                             FALSE, <<>>)
                         /\ pc' = "crashed"
                         /\ stderr' = stderr \cup {"adb.get_bugreport:called"}
                         /\ files' = files
                    ELSE IF end.t = "error"
                    THEN \* the exit promise rejects; nothing catches it and
                         \* nothing removes the file the stream has opened
                         /\ result' = Result("thrown", "SpawnFailed", "ENOENT",
                                             FALSE, <<>>)
                         /\ pc' = pc
                         /\ stderr' = stderr \cup {"adb.get_bugreport:called"}
                         /\ files' = created
                    ELSE IF exitCode # 0
                    THEN /\ result' = Result("isError", "SubprocessFailed",
                                             "stderr", TRUE, [exitCode |-> exitCode])
                         /\ pc' = pc
                         /\ stderr' = stderr \cup {"adb.get_bugreport:called",
                                                   "adb.get_bugreport:error"}
                         /\ files' = RemoveFile(created, fullPath)
                    ELSE /\ result' = Result("ok", "", "", TRUE, [filePath |-> fullPath])
                         /\ pc' = pc
                         /\ stderr' = stderr \cup {"adb.get_bugreport:called",
                                                   "adb.get_bugreport:saved"}
                         /\ files' = CreateWriteStream(files, fullPath, flushed)
    /\ UNCHANGED <<variant, zodMajor, GITHUB_TOKEN, DEFAULT_OWNER, DEFAULT_REPO,
                   registered, httpRequests>>

\* serials: empty, plain, with a separator, with parent-directory segments
Serials == {<<>>, <<"A", "1">>, <<"x", "/", "y">>,
            <<"/", ".", ".", "/", ".", ".", "/", "x">>}

AdbArgs ==
    {BugreportArgs("absent", "absent", <<>>),
     BugreportArgs("nonobject", "absent", <<>>),
     BugreportArgs("object", "absent", <<>>),
     BugreportArgs("object", "num", <<>>)}
    \cup {BugreportArgs("object", "str", s) : s \in Serials}

----------------------------------------------------------------------------
(* adb.list_devices *)

\* String.prototype.startsWith
StartsWith(s, prefix) ==
    Len(s) >= Len(prefix) /\ SubSeq(s, 1, Len(prefix)) = prefix

\* the leading characters of s up to the first whitespace character
RECURSIVE FirstToken(_)
FirstToken(s) ==
    IF Len(s) = 0 \/ s[1] \in Whitespace THEN <<>>
    ELSE <<s[1]>> \o FirstToken(Tail(s))

\* line.split(/\s+/) for a trimmed, non-empty line
RECURSIVE SplitWhitespace(_)
SplitWhitespace(s) ==
    IF Len(s) = 0 THEN <<>>
    ELSE LET tok == FirstToken(s)
             rest == TrimStart(SubSeq(s, Len(tok) + 1, Len(s)))
         IN <<tok>> \o SplitWhitespace(rest)

ListOfDevices == <<"L", "i", "s", "t", " ", "o", "f", " ", "d", "e", "v", "i", "c", "e", "s">>
ModelPrefix == <<"m", "o", "d", "e", "l", ":">>
DevicePrefix == <<"d", "e", "v", "i", "c", "e", ":">>

\* the value of the last token of parts that starts with prefix, "" if none
RECURSIVE LastWithPrefix(_, _)
LastWithPrefix(parts, prefix) ==
    IF Len(parts) = 0 THEN <<>>
    ELSE LET p == parts[Len(parts)] IN
         IF StartsWith(p, prefix)
         THEN SubSeq(p, Len(prefix) + 1, Len(p))
         ELSE LastWithPrefix(SubSeq(parts, 1, Len(parts) - 1), prefix)

\* the record built with the model: and device: tokens looked for from the
\* second token on
ParseDeviceLine_SliceFromState(line) ==
    LET parts == SplitWhitespace(line)
        rest == SubSeq(parts, 2, Len(parts))
    IN [serial |-> IF Len(parts) >= 1 THEN parts[1] ELSE <<>>,
        state |-> IF Len(parts) >= 2 THEN parts[2] ELSE <<>>,
        model |-> LastWithPrefix(rest, ModelPrefix),
        device |-> LastWithPrefix(rest, DevicePrefix)]

\* the body of the second .map: one device record from one line
ParseDeviceLine(line) ==
    LET parts == SplitWhitespace(line)
        rest == SubSeq(parts, 3, Len(parts))
    IN [serial |-> IF Len(parts) >= 1 THEN parts[1] ELSE <<>>,
        state |-> IF Len(parts) >= 2 THEN parts[2] ELSE <<>>,
        model |-> LastWithPrefix(rest, ModelPrefix),
        device |-> LastWithPrefix(rest, DevicePrefix)]

\* .map(trim).filter(non-empty and not the header).map(parse) over the
\* lines of the child's stdout
RECURSIVE ParseDevices(_)
ParseDevices(lines) ==
    IF Len(lines) = 0 THEN <<>>
    ELSE LET line == Trim(lines[1]) IN
         IF Len(line) > 0 /\ ~StartsWith(line, ListOfDevices)
         THEN <<ParseDeviceLine(line)>> \o ParseDevices(Tail(lines))
         ELSE ParseDevices(Tail(lines))

HeaderLine == <<"L", "i", "s", "t", " ", "o", "f", " ", "d", "e", "v", "i", "c", "e", "s", " ", "a", "t", "t", "a", "c", "h", "e", "d">>
PixelLine == <<"A", "B", "C", "1", "2", "3", "\t", "d", "e", "v", "i", "c", "e", " ", "m", "o", "d", "e", "l", ":", "P", "i", "x", "e", "l", "6", " ", "d", "e", "v", "i", "c", "e", ":", "p", "i", "x", "e", "l">>
OfflineLine == <<" ", " ", "X", "1", " ", " ", " ", "o", "f", "f", "l", "i", "n", "e", " ", "t", "r", "a", "n", "s", "p", "o", "r", "t", "_", "i", "d", ":", "5", " ">>
BareLine == <<"E", "5">>
ExampleLine == <<"A", "B", "C", "1", "2", "3", " ", "d", "e", "v", "i", "c", "e", " ", "m", "o", "d", "e", "l", ":", "P", "i", "x", "e", "l", "6", " ", "d", "e", "v", "i", "c", "e", ":", "p", "i", "x", "e", "l">>
StateLikeLine == <<"E", "6", " ", "d", "e", "v", "i", "c", "e", ":", "q">>
TwiceLine == <<"Z", "9", " ", "d", "e", "v", "i", "c", "e", " ", "d", "e", "v", "i", "c", "e", ":", "a", " ", "m", "o", "d", "e", "l", ":", "b", " ", "d", "e", "v", "i", "c", "e", ":", "c", " ", "u", "s", "b", ":", "1", " ", "m", "o", "d", "e", "l", ":", "d">>

\* the child's stdout split at line ends (stdout.split(/\r?\n/))
DeviceOutputs ==
    {<< <<>> >>,
     <<HeaderLine, <<>> >>,
     <<HeaderLine, PixelLine>>,
     <<HeaderLine, ExampleLine>>,
     <<HeaderLine, StateLikeLine>>,
     <<HeaderLine, PixelLine, <<>>, <<" ", "\t">>, OfflineLine, <<>> >>,
     <<PixelLine, HeaderLine, BareLine>>,
     <<HeaderLine, TwiceLine, PixelLine, PixelLine>>}

\* what the child writes to its stderr
ChildStderrs == {<<>>, <<" ", "n", "o", " ", "a", "d", "b", "\n">>}

\* the handler with the spawn failure escaping the try block
ListDevicesResult_SpawnThrows(end, exitCode, errText, output) ==
    IF end.t = "error"
    THEN Result("thrown", "SpawnFailed", "ENOENT", FALSE, <<>>)
    ELSE IF exitCode # 0
    THEN Result("isError", "SubprocessFailed", "adb devices -l failed", TRUE,
                [exitCode |-> exitCode, stderr |-> Trim(errText)])
    ELSE LET devices == ParseDevices(output) IN
         Result("ok", "", "", TRUE,
                [devices |-> devices, count |-> Len(devices)])

\* the value the handler returns once the child has ended: the catch block
\* for a rejected exit promise, the exit-code branch with the code and the
\* trimmed stderr in its text, else the parsed devices and their count
ListDevicesResult(end, exitCode, errText, output) ==
    IF end.t = "error"
    THEN Result("isError", "SpawnFailed", "ENOENT", TRUE, <<>>)
    ELSE IF exitCode # 0
    THEN Result("isError", "SubprocessFailed", "adb devices -l failed", TRUE,
                [exitCode |-> exitCode, stderr |-> Trim(errText)])
    ELSE LET devices == ParseDevices(output) IN
         Result("ok", "", "", TRUE,
                [devices |-> devices, count |-> Len(devices)])

ListDevices(outputs, endings, maxCalls) ==
    /\ pc = "serving"
    /\ "adb.list_devices" \in registered
    /\ calls < maxCalls
    /\ \E events \in endings, output \in outputs, errText \in ChildStderrs :
         LET end == ExitPromise(events)
             exitCode == ExitCode(end)
         IN
         /\ req' = [tool |-> "adb.list_devices", args |-> <<>>]
         /\ adapter' = [op |-> "spawn", spawned |-> TRUE, fullPath |-> <<>>,
                        end |-> end, exitCode |-> exitCode, output |-> output,
                        stderr |-> errText, events |-> events]
         /\ result' = ListDevicesResult(end, exitCode, errText, output)
         /\ stderr' = stderr \cup {"adb.list_devices:called"}
                        \cup (IF end.t = "error" \/ exitCode # 0
                              THEN {"adb.list_devices:error"} ELSE {})
    /\ spawned' = spawned + 1
    /\ stdout' = stdout \cup TransportStdout(variant)
    /\ calls' = calls + 1
    /\ UNCHANGED <<variant, zodMajor, GITHUB_TOKEN, DEFAULT_OWNER, DEFAULT_REPO,
                   pc, registered, httpRequests, dirs, files>>

----------------------------------------------------------------------------
(* The whole program: any variant, any tool, MaxCalls requests *)

SomeFileNames == {<<>>, <<"a">>, <<".", ".">>, EtcPasswd}

SomeListArgs == {a \in ListArgs : a.repo = Absent /\ a.state \in {Absent, Given("all"), Given("bogus")}}
SomeDiffArgs == {a \in DiffArgs : a.repo = Absent /\ a.number \in {NumAbsent, NumInt(0), NumInt(7)}}
SomeListOutcomes ==
    {Transport, Response(404, 5, [valid |-> FALSE, data |-> <<>>])}
    \cup {Response(200, 5, j) : j \in Jsons}
SomeDiffOutcomes ==
    {Transport, Response(404, 5, [valid |-> FALSE, data |-> <<>>]),
     Response(200, 5, [valid |-> FALSE, data |-> <<>>])}

Next ==
    \/ Start
    \/ ListPullRequests(SomeListArgs, SomeListOutcomes, MaxCalls)
    \/ GetPrDiff(SomeDiffArgs, SomeDiffOutcomes, MaxCalls)
    \/ SaveSummary(SomeFileNames, MaxCalls)
    \/ ListDevices(DeviceOutputs, SingleEndings, MaxCalls)
    \/ GetBugreport(AdbArgs, SingleEndings, MaxCalls)

Spec == Init /\ [][Next]_vars

\* the adb tools alone
InitAdb == Init /\ variant = "adb"
NextAdb ==
    \/ Start
    \/ ListDevices(DeviceOutputs, SingleEndings, MaxCalls)
    \/ GetBugreport(AdbArgs, SingleEndings, MaxCalls)
SpecAdb == InitAdb /\ [][NextAdb]_vars

\* the adb tools with children that emit both 'error' and 'close'
EventArgs == {BugreportArgs("object", "absent", <<>>),
              BugreportArgs("object", "str", <<"A", "1">>)}
NextEvents ==
    \/ Start
    \/ ListDevices({<<HeaderLine, ExampleLine>>}, SingleEndings \cup BothEvents, MaxCalls)
    \/ GetBugreport(EventArgs, SingleEndings \cup BothEvents, MaxCalls)
SpecEvents == InitAdb /\ [][NextEvents]_vars

----------------------------------------------------------------------------
(* Properties *)

GithubTools == {"github.list_pull_requests", "github.get_pr_diff"}

\* C1: in every variant and every reachable state, diagnostic text is
\* written only to stderr: nothing but protocol messages reaches stdout.
C1_DiagnosticsOnlyOnStderr ==
    "diagnostic" \notin stdout

\* C2: for every fileName, the path fs.save_summary writes to (the summaries
\* directory joined with the sanitized name) never resolves to a location
\* outside the summaries directory.
C2_SummaryPathInsideSummariesDir ==
    req.tool = "fs.save_summary" => IsInside(adapter.fullPath, SummariesDir)

\* C3: fs.save_summary derives the file name by replacing every "/" and "\"
\* with "_", removing every "..", and replacing every whitespace run with one
\* "_"; the file written is <summaries-dir>/<that name>; for
\* "../../etc/passwd" no ".." and no separator remains in the name.
C3_SanitizedNameFollowsTheRules ==
    req.tool = "fs.save_summary" =>
        LET name == CollapseWhitespace(RemoveDotDot(ReplaceSeparators(req.fileName)))
        IN /\ adapter.safeFileName = name
           /\ adapter.fullPath = PathJoin(SummariesDir, name)
           /\ req.fileName = EtcPasswd =>
                /\ ~Contains(adapter.safeFileName, <<".", ".">>)
                /\ \A i \in 1..Len(adapter.safeFileName) :
                     adapter.safeFileName[i] \notin Separators

\* C4: fs.save_summary never throws for a filesystem failure: when mkdir or
\* the write fails it returns an isError result whose text carries the
\* underlying failure message.
C4_SaveFailureIsErrorResult ==
    (req.tool = "fs.save_summary" /\ ~adapter.writeOk) =>
        /\ result.kind = "isError"
        /\ result.msg = adapter.fsErr

\* C5: after adb.get_bugreport ends in a failure (nonzero exit code, or the
\* child cannot be spawned) no file exists at the output path of that call.
C5_NoFileAfterFailedBugreport ==
    (/\ req.tool = "adb.get_bugreport"
     /\ adapter.op = "spawn"
     /\ adapter.spawned
     /\ result.kind \in {"isError", "thrown"}) =>
        \A f \in files : f.path # adapter.fullPath

\* the arguments C6 speaks of: absent, not an object, or serial missing or
\* not a string
C6_BadArguments(args) ==
    \/ args.shape \in {"absent", "nonobject"}
    \/ args.serial.t \in {"absent", "num"}

\* C6: with such arguments adb.get_bugreport fails with an invalid-argument
\* error before any side effect: no directory is created, no file is
\* created, no child is spawned (and nothing is logged).
C6_InvalidArgumentsBeforeSideEffects ==
    [][(/\ calls' = calls + 1
        /\ req'.tool = "adb.get_bugreport"
        /\ C6_BadArguments(req'.args)) =>
            /\ result'.kind = "thrown"
            /\ result'.err = "InvalidArgument"
            /\ adapter'.op = "none"
            /\ dirs' = dirs
            /\ files' = files
            /\ spawned' = spawned
            /\ stderr' = stderr]_vars

\* C6 witness: a request without a string serial has been refused after an
\* earlier request had created the directory and a file
C6_Witness ==
    /\ req.tool = "adb.get_bugreport"
    /\ C6_BadArguments(req.args)
    /\ result.err = "InvalidArgument"
    /\ calls = 2
    /\ spawned = 1
    /\ files # {}

\* C7: a request whose serial is the empty string is rejected with an
\* invalid-argument failure; no child is spawned, no file is created.
C7_EmptySerialRejected ==
    (/\ req.tool = "adb.get_bugreport"
     /\ req.args.shape = "object"
     /\ req.args.serial.t = "str"
     /\ Len(req.args.serial.v) = 0) =>
        /\ result.err = "InvalidArgument"
        /\ adapter.op = "none"

\* the numbers C8 speaks of: missing, zero, negative, or not an integer
C8_BadNumber(a) ==
    \/ a.t \in {"absent", "frac", "str"}
    \/ a.t = "int" /\ a.n <= 0

C9_MissingCredentialAtUse ==
    GITHUB_TOKEN = "" =>
        /\ pc = "boot" => ENABLED Start
        /\ pc = "serving" => registered = Tools(variant)
        /\ httpRequests = 0
        /\ (req.tool \in GithubTools /\ adapter.op = "http") =>
             /\ ~adapter.attempted
             /\ result.kind \in {"thrown", "isError"}
             /\ result.err = "MissingCredential"

\* C10: callGithub returns the response exactly when 200 <= status < 300;
\* for every other status it fails with an error carrying the status code
\* and the first min(200, length) characters of the body, never more.
C10_StatusClassification ==
    (adapter.op = "http" /\ adapter.net.t = "response") =>
        LET s == adapter.net.status
            body == adapter.net.text
        IN /\ adapter.ok <=> (200 <= s /\ s < 300)
           /\ ~adapter.ok =>
                /\ adapter.err = "RemoteRejected"
                /\ adapter.status = s
                /\ Len(adapter.snippet) = Min(200, Len(body))
                /\ Len(adapter.snippet) <= 200
                /\ \A i \in 1..Len(adapter.snippet) : adapter.snippet[i] = body[i]

\* C10 witness: a 300 response with a body longer than 200 characters has
\* been rejected
C10_Witness ==
    /\ adapter.op = "http"
    /\ adapter.net.t = "response"
    /\ adapter.net.status = 300
    /\ Len(adapter.net.text) > 200
    /\ ~adapter.ok
    /\ Len(adapter.snippet) = 200

\* C11: on success github.list_pull_requests returns one record per element
\* of the remote array, in the remote order, nothing dropped, duplicated or
\* re-sorted; each record carries the element's number, title and state
\* unchanged and its html_url as url; the count of the summary text (where the
\* result has a text) is the number of records.
C11_ListMapsRemoteArray ==
    (req.tool = "github.list_pull_requests" /\ result.kind = "ok") =>
        LET data == adapter.net.json.data
            recs == result.payload.pullRequests
        IN /\ Len(recs) = Len(data)
           /\ \A i \in 1..Len(data) :
                /\ recs[i].number = data[i].number
                /\ recs[i].title = data[i].title
                /\ recs[i].url = data[i].html_url
                /\ recs[i].state = data[i].state
                /\ DOMAIN recs[i] = {"number", "title", "url", "state"}
           /\ result.hasText => result.payload.count = Len(recs)

\* C11 witness: a remote array of two different pull requests, the higher
\* number first, has been returned with a summary text
C11_Witness ==
    /\ req.tool = "github.list_pull_requests"
    /\ result.kind = "ok"
    /\ result.hasText
    /\ Len(adapter.net.json.data) = 2
    /\ adapter.net.json.data[1].number > adapter.net.json.data[2].number
    /\ result.payload.pullRequests[1].number = adapter.net.json.data[1].number
    /\ result.payload.count = 2

\* C12: when owner, repo or state is omitted the URL is built with the
\* process default owner, the process default repo and state "open"; a value
\* the caller supplies is used unchanged; in every variant of the input
\* shape.
C12_DefaultsApplied ==
    (req.tool \in GithubTools /\ adapter.op = "http") =>
        /\ adapter.url.owner = IF req.args.owner.t = "absent"
                               THEN DEFAULT_OWNER ELSE req.args.owner.v
        /\ adapter.url.repo = IF req.args.repo.t = "absent"
                              THEN DEFAULT_REPO ELSE req.args.repo.v
        /\ req.tool = "github.list_pull_requests" =>
             adapter.url.state = IF req.args.state.t = "absent"
                                 THEN "open" ELSE req.args.state.v

\* C13: every result a tool handler returns, on a success path or on an
\* error-flagged path, in every variant, carries a content list with at
\* least one text block.
C13_ResultHasTextBlock ==
    result.kind \in {"ok", "isError"} => result.hasText

\* a result that reports the failure of an external operation (HTTP request,
\* filesystem operation or child process), not a refusal of the arguments
C14_ExternalFailure(r) ==
    /\ r.kind \in {"isError", "thrown", "crash"}
    /\ r.err # "InvalidArgument"

\* C14: each tool surfaces all its external-operation failures in one mode
\* only, all thrown or all error-flagged results: two failures of the same
\* tool never differ in mode, and adb.get_bugreport surfaces mkdir failure,
\* spawn failure and nonzero exit alike as an error-flagged result.
C14_OneFailureModePerTool ==
    [][(calls' = calls + 1 /\ C14_ExternalFailure(result')) =>
          /\ req'.tool = "adb.get_bugreport" => result'.kind = "isError"
          /\ (req.tool = req'.tool /\ C14_ExternalFailure(result)) =>
                result'.kind = result.kind]_vars

\* the positions of a line where a token (a maximal run of non-whitespace
\* characters) starts
C15_TokenStarts(line) ==
    {i \in 1..Len(line) :
        line[i] \notin Whitespace /\ (i = 1 \/ line[i - 1] \in Whitespace)}

\* the k-th token of a line, "" if the line has fewer tokens
C15_Token(line, k) ==
    LET starts == C15_TokenStarts(line)
        at == {i \in starts : Cardinality({x \in starts : x < i}) = k - 1}
    IN IF at = {} THEN <<>>
       ELSE LET i == CHOOSE x \in at : TRUE
                j == CHOOSE y \in i..Len(line) :
                       /\ \A z \in i..y : line[z] \notin Whitespace
                       /\ y = Len(line) \/ line[y + 1] \in Whitespace
            IN SubSeq(line, i, j)

\* the values that follow prefix in the tokens after the first two
C15_Values(line, prefix) ==
    {SubSeq(C15_Token(line, k), Len(prefix) + 1, Len(C15_Token(line, k))) :
        k \in {n \in 3..Cardinality(C15_TokenStarts(line)) :
                 StartsWith(C15_Token(line, n), prefix)}}

\* a line that yields a record: not empty (not blank) and not the header
C15_IsDeviceLine(line) ==
    /\ C15_TokenStarts(line) # {}
    /\ \E n \in 0..Len(line) :
         /\ \A i \in 1..n : line[i] \in Whitespace
         /\ n < Len(line) /\ line[n + 1] \notin Whitespace
         /\ ~StartsWith(SubSeq(line, n + 1, Len(line)), ListOfDevices)

\* C15: after a zero exit, adb.list_devices returns one record per non-empty
\* line that is not the header line, in output order; serial is the first
\* whitespace-separated token, state the second ("" if absent), model and
\* device the values following "model:" and "device:" among the remaining
\* tokens ("" if absent), tokens with other prefixes are ignored; the count of
\* the summary is the number of records; the header followed by
\* "ABC123 device model:Pixel6 device:pixel" yields exactly the one record
\* {ABC123, device, Pixel6, pixel}.
C15_DevicesParsedFromOutput ==
    (req.tool = "adb.list_devices" /\ result.kind = "ok") =>
        LET output == adapter.output
            devices == result.payload.devices
            lines == {n \in 1..Len(output) : C15_IsDeviceLine(output[n])}
        IN /\ Len(devices) = Cardinality(lines)
           /\ result.payload.count = Len(devices)
           /\ \A n \in lines :
                LET d == devices[Cardinality({m \in lines : m <= n})]
                    models == C15_Values(output[n], ModelPrefix)
                    names == C15_Values(output[n], DevicePrefix)
                IN /\ d.serial = C15_Token(output[n], 1)
                   /\ d.state = C15_Token(output[n], 2)
                   /\ IF models = {} THEN d.model = <<>> ELSE d.model \in models
                   /\ IF names = {} THEN d.device = <<>> ELSE d.device \in names
           /\ output = <<HeaderLine, ExampleLine>> =>
                devices = << [serial |-> <<"A", "B", "C", "1", "2", "3">>,
                              state |-> <<"d", "e", "v", "i", "c", "e">>,
                              model |-> <<"P", "i", "x", "e", "l", "6">>,
                              device |-> <<"p", "i", "x", "e", "l">>] >>

\* C15 witness: the example output has been parsed into its one record, with
\* the count 1
C15_Witness ==
    /\ req.tool = "adb.list_devices"
    /\ result.kind = "ok"
    /\ adapter.output = <<HeaderLine, ExampleLine>>
    /\ result.payload.count = 1
    /\ result.payload.devices[1].model = <<"P", "i", "x", "e", "l", "6">>

\* text is captured, apart from whitespace at its two ends
C16_CarriesText(text, captured) ==
    \E a \in 0..Len(captured), b \in 0..Len(captured) :
        /\ a + b <= Len(captured)
        /\ text = SubSeq(captured, a + 1, Len(captured) - b)
        /\ \A i \in 1..a : captured[i] \in Whitespace
        /\ \A i \in (Len(captured) - b + 1)..Len(captured) :
             captured[i] \in Whitespace

\* C16: adb.list_devices never throws: a nonzero exit code gives an
\* error-flagged result whose text carries the exit code and the captured
\* stderr, a child that cannot be spawned gives an error-flagged result, and
\* in neither case a device list is returned.
C16_ListDevicesNeverThrows ==
    req.tool = "adb.list_devices" =>
        /\ result.kind \in {"ok", "isError"}
        /\ adapter.end.t = "error" =>
             /\ result.kind = "isError"
             /\ result.hasText
             /\ "devices" \notin DOMAIN result.payload
        /\ (adapter.end.t = "close" /\ ~adapter.end.isNull /\ adapter.end.code # 0) =>
             /\ result.kind = "isError"
             /\ result.hasText
             /\ result.payload.exitCode = adapter.end.code
             /\ C16_CarriesText(result.payload.stderr, adapter.stderr)
             /\ "devices" \notin DOMAIN result.payload

\* C16 witness: adb has exited with code 255 after writing to its stderr
C16_Witness ==
    /\ req.tool = "adb.list_devices"
    /\ adapter.end = ChildClose(255)
    /\ Len(adapter.stderr) > 0
    /\ result.kind = "isError"
    /\ result.payload.exitCode = 255
    /\ Len(result.payload.stderr) > 0

\* C17: for every serial adb.get_bugreport accepts, the output path is a
\* direct child of the bugreports directory: the serial introduces no path
\* separator and no parent-directory segment.
C17_BugreportPathIsDirectChild ==
    (req.tool = "adb.get_bugreport" /\ adapter.op = "spawn" /\ adapter.spawned) =>
        IsDirectChild(adapter.fullPath, BugreportsDir)

AdbTools == {"adb.list_devices", "adb.get_bugreport"}

\* C18: each tool invocation performs at most one external operation: a
\* GitHub tool issues at most one HTTP GET and starts no child, an adb tool
\* starts at most one child and issues no request; a failed operation is not
\* tried again, and every invocation that runs adb starts its own child.
C18_AtMostOneExternalOperation ==
    [][calls' = calls + 1 =>
          /\ httpRequests' - httpRequests \in {0, 1}
          /\ spawned' - spawned \in {0, 1}
          /\ req'.tool \in GithubTools => spawned' = spawned
          /\ req'.tool \in AdbTools => httpRequests' = httpRequests
          /\ req'.tool = "fs.save_summary" =>
                httpRequests' = httpRequests /\ spawned' = spawned
          /\ (adapter'.op = "http" /\ ~adapter'.ok) =>
                httpRequests' - httpRequests <= 1
          /\ (adapter'.op = "spawn" /\ adapter'.spawned) =>
                spawned' = spawned + 1]_vars

\* C18 witness: the second of two GitHub invocations has failed in transport,
\* and two requests have been issued in all
C18_Witness ==
    /\ calls = 2
    /\ req.tool \in GithubTools
    /\ adapter.op = "http"
    /\ adapter.err = "TransportFailure"
    /\ httpRequests = 2

\* C20: the default owner, the default repo and the credential are read once
\* at process start and never change: no invocation alters them, so later
\* invocations use the defaults the process started with.
C20_DefaultsNeverChange ==
    [][/\ GITHUB_TOKEN' = GITHUB_TOKEN
       /\ DEFAULT_OWNER' = DEFAULT_OWNER
       /\ DEFAULT_REPO' = DEFAULT_REPO]_vars

\* C20 witness: a second GitHub invocation, made without owner, has used
\* the default owner taken from the environment at start
C20_Witness ==
    /\ calls = 2
    /\ req.tool \in GithubTools
    /\ req.args.owner.t = "absent"
    /\ adapter.op = "http"
    /\ DEFAULT_OWNER = "env-owner"
    /\ adapter.url.owner = DEFAULT_OWNER

\* a file's characters read back as a string
RECURSIVE C21_Decode(_)
C21_Decode(chars) ==
    IF Len(chars) = 0 THEN <<>>
    ELSE IF chars[1] = Supplementary
    THEN <<HighSurrogate, LowSurrogate>> \o C21_Decode(Tail(chars))
    ELSE <<chars[1]>> \o C21_Decode(Tail(chars))

\* a string in which every surrogate has its partner
C21_WellFormed(s) ==
    \A i \in 1..Len(s) :
        /\ s[i] = HighSurrogate => (i < Len(s) /\ s[i + 1] = LowSurrogate)
        /\ s[i] = LowSurrogate => (i > 1 /\ s[i - 1] = HighSurrogate)

\* a save has just succeeded: one file is at the returned path and reads
\* back as the content given, and if the save before it succeeded with the
\* same fileName it returned the same path
C21_SavedExactly ==
    /\ Cardinality({f \in files' : f.path = result'.payload.filePath}) = 1
    /\ \A f \in files' :
         f.path = result'.payload.filePath => C21_Decode(f.content) = req'.content
    /\ (/\ req.tool = "fs.save_summary"
        /\ result.kind = "ok"
        /\ req.fileName = req'.fileName) =>
            result'.payload.filePath = result.payload.filePath

C22_ErrorTag(tool) ==
    CASE tool = "github.list_pull_requests" -> "github.list_pull_requests:error"
      [] tool = "github.get_pr_diff" -> "github.get_pr_diff:error"
      [] tool = "fs.save_summary" -> "fs.save_summary:error"
      [] tool = "adb.list_devices" -> "adb.list_devices:error"
      [] tool = "adb.get_bugreport" -> "adb.get_bugreport:error"
      [] OTHER -> "none"

\* C22: whenever a handler surfaces the failure of an external operation, as
\* a thrown error or as an isError result, a diagnostic message about that
\* failure is on stderr by the time the failure is emitted; no caught
\* failure is discarded (each ends thrown or error-flagged).
C22_FailureIsLogged ==
    [][(/\ calls' = calls + 1
        /\ result'.kind \in {"thrown", "isError"}
        /\ result'.err # "InvalidArgument") =>
            C22_ErrorTag(req'.tool) \in stderr']_vars

\* C23: in both adb tools a child that closes with a null exit code is
\* treated as exit code 0; the call succeeds exactly when the code after
\* that mapping is 0, and every other code is reported as a failure carrying
\* the code (wherever the handler is still there to see the close event).
C23_NullExitCodeIsZero ==
    (/\ req.tool \in AdbTools
     /\ adapter.op = "spawn"
     /\ adapter.spawned
     /\ adapter.end.t = "close"
     /\ pc # "crashed") =>
        LET code == IF adapter.end.isNull THEN 0 ELSE adapter.end.code
        IN /\ result.kind = "ok" <=> code = 0
           /\ code # 0 =>
                /\ result.kind = "isError"
                /\ result.err = "SubprocessFailed"
                /\ result.payload.exitCode = adapter.end.code

\* C23 witness: adb bugreport has closed with a null code and the call has
\* returned the path of the file
C23_Witness ==
    /\ req.tool = "adb.get_bugreport"
    /\ adapter.op = "spawn"
    /\ adapter.end = ChildCloseNull
    /\ result.kind = "ok"
    /\ result.payload.filePath = adapter.fullPath

\* C24: in the variant that returns error-flagged results for the GitHub
\* tools, whenever callGithub fails (missing credential, non-2xx status,
\* transport failure) or the body cannot be parsed, the two GitHub tools
\* return an isError result whose text carries the underlying failure
\* message, and do not throw.
C24_GithubFailureIsErrorResult ==
    (/\ variant = "part_001"
     /\ req.tool \in GithubTools
     /\ adapter.op = "http"
     /\ result.kind # "ok") =>
        /\ result.kind = "isError"
        /\ result.hasText
        /\ result.msg = IF adapter.ok THEN "ParseFailure" ELSE adapter.err

\* C25: when adb.get_bugreport returns a success result, everything the
\* child wrote to its stdout is already in the file at the returned path
\* (the write stream has finished), whatever the order of the child's close
\* event and the completion of the piped writes.
C25_BugreportFileComplete ==
    (req.tool = "adb.get_bugreport" /\ result.kind = "ok") =>
        \E f \in files :
            f.path = result.payload.filePath /\ f.content = "full"

\* C26: in both adb tools, when the child emits both an 'error' event and a
\* 'close' event the handler produces exactly one outcome, fixed by the
\* first of the two: 'error' first gives a spawn failure whatever the code
\* of the 'close' that follows, never a success; 'close' first gives the
\* outcome of its exit code, and the later 'error' changes nothing.
C26_FirstEventDecides ==
    (/\ req.tool \in AdbTools
     /\ adapter.op = "spawn"
     /\ adapter.spawned
     /\ Len(adapter.events) = 2) =>
        LET first == adapter.events[1]
        IN /\ result.kind \in {"ok", "isError", "thrown"}
           /\ first.t = "error" =>
                /\ result.kind \in {"isError", "thrown"}
                /\ result.err = "SpawnFailed"
           /\ first.t = "close" =>
                /\ result.err # "SpawnFailed"
                /\ result.kind = "ok" <=> (first.isNull \/ first.code = 0)
                /\ result.kind # "ok" => result.payload.exitCode = first.code

\* C26 witness: adb bugreport could not be spawned, 'close' with code 0
\* followed the 'error', and the call has failed
C26_Witness ==
    /\ req.tool = "adb.get_bugreport"
    /\ adapter.op = "spawn"
    /\ adapter.events = <<ChildError, ChildClose(0)>>
    /\ result.kind = "thrown"
    /\ result.err = "SpawnFailed"

====
